---------------------------- MODULE Spec2Model ----------------------------
(***************************************************************************)
(* Model of the NLTU schedule normalisation engine:                        *)
(*   src/app.py            the /schedules service (Cell Parser, K=1 Slot   *)
(*                         Reconciler, per-group Schedule Builder)         *)
(*   src/sync_schedule.py  the file-sync job (K-column Slot Reconciler,    *)
(*                         grouped Schedule Builder, Group Resolver)       *)
(*                                                                         *)
(* Encoding of Python values.                                              *)
(*   str          a sequence of one-character strings, "" is << >>         *)
(*   None (cell)  the one-element tuple None; no text equals it, since a   *)
(*                text's elements are single characters                    *)
(*   dict         a record whose fields are the dict's keys                *)
(*   None (where a dict is expected)   the record NoneResult               *)
(*   a raised exception                the record [error |-> <class>]      *)
(* The Cyrillic literals of the source are written in Latin letters        *)
(* (the module's strings are ASCII): "лек." is lek., "ч" is ch, the day    *)
(* "Понеділок" is Ponedilok, and so on; each table below names the line    *)
(* of the source it transliterates.                                        *)
(***************************************************************************)
EXTENDS Integers, Sequences, FiniteSets, TLC

VARIABLES
    text,       \* SpecParse: the cell text handed to parse_event
    parsed,     \* SpecParse: what parse_event returned or raised
    oddValues,  \* SpecReconcile: the odd-week vector of one slot
    evenValues, \* SpecReconcile: the even-week vector of one slot
    slotSync,   \* SpecReconcile: sync_schedule.py's normalize_event
    slotApp,    \* SpecReconcile: app.py's normalize_event, when K = 1
    grid,       \* Spec: the rows of the loaded data frame
    appDays,    \* Spec: per group, the `days` accumulator of get_group_schedule
    appOut,     \* Spec: per group, what get_group_schedule returned or raised
    response,   \* Spec: the validated /schedules response, or the error
    syncDays,   \* Spec: the `days` accumulator of get_grouped_schedule
    syncOut,    \* Spec: what get_students_schedule stored, or the error
    tutorsOut,  \* SpecTutors: what regroup_schedule_for_tutors returned or raised
    tutorsResponse  \* SpecTutors: the validated /schedules?for=tutors response

vars == <<text, parsed, oddValues, evenValues, slotSync, slotApp,
          grid, appDays, appOut, response, syncDays, syncOut,
          tutorsOut, tutorsResponse>>

\* Bounds of the model.
MaxLines == 4   \* lines of a cell text drawn for parse_event
MaxK == 2       \* sub-columns of an entity drawn for the Slot Reconciler
MaxRows == 2    \* rows of a grid drawn for the Schedule Builder

None == <<"None">>
NoneResult == [none |-> TRUE]
Pending == [pending |-> TRUE]

Truthy(v) == v # None /\ v # << >>

(***************************************************************************)
(* Python str methods, on sequences of characters.                         *)
(***************************************************************************)
Whitespace == {" ", "\n", "\t"}

\* str.lstrip(chars)
LStripChars(s, chars) ==
    IF \A i \in 1..Len(s) : s[i] \in chars THEN << >>
    ELSE LET first == CHOOSE i \in 1..Len(s) :
                          s[i] \notin chars /\ \A k \in 1..(i - 1) : s[k] \in chars
         IN  SubSeq(s, first, Len(s))

\* str.rstrip(chars)
RStripChars(s, chars) ==
    IF \A i \in 1..Len(s) : s[i] \in chars THEN << >>
    ELSE LET last == CHOOSE i \in 1..Len(s) :
                         s[i] \notin chars /\ \A k \in (i + 1)..Len(s) : s[k] \in chars
         IN  SubSeq(s, 1, last)

\* str.strip(chars); str.strip() is StripChars(s, Whitespace)
StripChars(s, chars) == RStripChars(LStripChars(s, chars), chars)

Strip(s) == StripChars(s, Whitespace)

\* whether p occurs in s at position i
OccursAt(s, p, i) == i + Len(p) - 1 <= Len(s) /\ SubSeq(s, i, i + Len(p) - 1) = p

\* str.replace(old, new), old not empty: every non-overlapping occurrence,
\* left to right
RECURSIVE Replace(_, _, _)
Replace(s, old, new) ==
    IF \E i \in 1..Len(s) : OccursAt(s, old, i)
    THEN LET i == CHOOSE j \in 1..Len(s) :
                      OccursAt(s, old, j) /\ \A k \in 1..(j - 1) : ~OccursAt(s, old, k)
         IN  SubSeq(s, 1, i - 1) \o new
             \o Replace(SubSeq(s, i + Len(old), Len(s)), old, new)
    ELSE s

\* str.split(sep) for a one-character sep: "" splits to [""]
RECURSIVE Split(_, _)
Split(s, sep) ==
    IF \E i \in 1..Len(s) : s[i] = sep
    THEN LET i == CHOOSE j \in 1..Len(s) :
                      s[j] = sep /\ \A k \in 1..(j - 1) : s[k] # sep
         IN  <<SubSeq(s, 1, i - 1)>> \o Split(SubSeq(s, i + 1, Len(s)), sep)
    ELSE <<s>>

\* str.rsplit(maxsplit=1): whitespace-separated, from the right. The result
\* has no item for an empty or blank s, one item when s has a single token,
\* else the text before the last whitespace run and the last token.
RSplit1(s) ==
    LET r == RStripChars(s, Whitespace)
    IN  IF r = << >> THEN << >>
        ELSE IF \E i \in 1..Len(r) : r[i] \in Whitespace
             THEN LET i == CHOOSE j \in 1..Len(r) :
                               r[j] \in Whitespace
                               /\ \A k \in (j + 1)..Len(r) : r[k] \notin Whitespace
                      rest == RStripChars(SubSeq(r, 1, i - 1), Whitespace)
                  IN  IF rest = << >>
                      THEN <<SubSeq(r, i + 1, Len(r))>>
                      ELSE <<rest, SubSeq(r, i + 1, Len(r))>>
             ELSE <<r>>

\* "\n".join(lines)
RECURSIVE JoinLines(_)
JoinLines(lines) ==
    IF lines = << >> THEN << >>
    ELSE IF Len(lines) = 1 THEN lines[1]
         ELSE lines[1] \o <<"\n">> \o JoinLines(Tail(lines))

\* [f(x) for x in seq]
MapSeq(seq, f(_)) == [i \in 1..Len(seq) |-> f(seq[i])]

\* F(e), with e evaluated once and its value bound: a local variable of the
\* source that is assigned once and read several times
With(e, F(_)) == CHOOSE r \in { F(x) : x \in {e} } : TRUE


(***************************************************************************)
(* src/app.py: the fixed tables.                                           *)
(***************************************************************************)
\* EVENT_START_TIMES; a start time is written as in the source
EVENT_START_TIMES == <<"08:30", "10:20", "12:10", "14:30", "16:20">>

EVENT_END_TIMES == <<"10:05", "11:55", "13:45", "16:05", "17:35">>

\* SUB_EVENT_NORMALIZERS, in the dict's order:
\* "лек." -> "лекція", "лаб." -> "лабораторна", "практ." -> "практичні"
SUB_EVENT_NORMALIZERS ==
    << [old |-> <<"l", "e", "k", ".">>,
        new |-> <<"l", "e", "k", "c", "i", "y", "a">>],
       [old |-> <<"l", "a", "b", ".">>,
        new |-> <<"l", "a", "b", "o", "r", "a", "t", "o", "r", "n", "a">>],
       [old |-> <<"p", "r", "a", "k", "t", ".">>,
        new |-> <<"p", "r", "a", "k", "t", "y", "c", "h", "n", "i">>] >>

\* "адаптаційний курс", the marker line and the type
AdaptationCourse ==
    <<"a", "d", "a", "p", "t", "a", "c", "i", "j", "n", "y", "j", " ",
      "k", "u", "r", "s">>

\* "Адаптаційний курс", the name given to the adaptation course
AdaptationCourseName ==
    <<"A", "d", "a", "p", "t", "a", "c", "i", "j", "n", "y", "j", " ",
      "k", "u", "r", "s">>

\* SubEventType: "лекція", "лабораторна", "практичні", "адаптаційний курс"
SubEventType ==
    { SUB_EVENT_NORMALIZERS[1].new, SUB_EVENT_NORMALIZERS[2].new,
      SUB_EVENT_NORMALIZERS[3].new, AdaptationCourse }

\* RAW_DAYS: "Понеділок", "Вівторок", "Середа", "Четвер", "Пятниця"
RAW_DAYS == <<"Ponedilok", "Vivtorok", "Sereda", "Chetver", "Pyatnycya">>

DAYS == <<"monday", "tuesday", "wednesday", "thursday", "friday">>

\* list.index(x), for an x of the list
IndexOf(seq, x) == CHOOSE i \in 1..Len(seq) : seq[i] = x

RAW_DAY_TO_DAY(day) == DAYS[IndexOf(RAW_DAYS, day)]

(***************************************************************************)
(* src/app.py: the Cell Parser.                                            *)
(***************************************************************************)
IsError(r) == "error" \in DOMAIN r

InvalidEventFormatError == [error |-> "InvalidEventFormatError"]

\* what the tuple unpacking of parse_subject raises on fewer than two items
ValueError == [error |-> "ValueError"]

parse_subject(subject) ==
    LET parts == RSplit1(subject)
    IN  IF Len(parts) # 2
        THEN ValueError
        ELSE [name |-> parts[1],
              type |-> StripChars(StripChars(parts[2], {"\""}), {"_"})]

\* the loop over SUB_EVENT_NORMALIZERS
ApplyNormalizers(event) ==
    Replace(Replace(Replace(event,
                SUB_EVENT_NORMALIZERS[1].old, SUB_EVENT_NORMALIZERS[1].new),
                SUB_EVENT_NORMALIZERS[2].old, SUB_EVENT_NORMALIZERS[2].new),
                SUB_EVENT_NORMALIZERS[3].old, SUB_EVENT_NORMALIZERS[3].new)

EventParts(event) == MapSeq(Split(Strip(ApplyNormalizers(event)), "\n"), Strip)

\* the match statement of parse_event over parts
MatchParts(parts) ==
    IF Len(parts) = 3 /\ parts[3] = AdaptationCourse
    THEN [groups |-> Split(parts[1], ","),
          name |-> AdaptationCourseName,
          type |-> AdaptationCourse]
    ELSE IF Len(parts) = 4
    THEN LET subj == parse_subject(parts[2])
         IN  IF IsError(subj) THEN subj
             ELSE [groups |-> Split(parts[1], ","),
                   name |-> subj.name,
                   type |-> subj.type,
                   tutor |-> Strip(parts[3]),
                   location |-> Strip(parts[4])]
    ELSE IF Len(parts) = 3
    THEN LET subj == parse_subject(parts[1])
         IN  IF IsError(subj) THEN subj
             ELSE [name |-> subj.name,
                   type |-> subj.type,
                   tutor |-> Strip(parts[2]),
                   location |-> Strip(parts[3])]
    ELSE InvalidEventFormatError

parse_event(event) == With(EventParts(event), MatchParts)

(***************************************************************************)
(* The cell texts drawn for the Cell Parser: every text of one to MaxLines *)
(* of these lines.                                                         *)
(***************************************************************************)
LineGroups == <<"G", ",", "H">>
LineLecture == <<"M", " ", "l", "e", "k", ".">>
LineQuotedLab == <<"M", " ", "N", " ", "\"", "_", "l", "a", "b", ".", "_", "\"">>
LineOneToken == <<" ", "S", " ">>
LineSeminar == <<"M", " ", "s", "e", "m">>

ParseLines ==
    {LineGroups, LineLecture, LineQuotedLab, LineOneToken, LineSeminar,
     AdaptationCourse}

ParseTexts ==
    { JoinLines(ls) : ls \in UNION { [1..n -> ParseLines] : n \in 1..MaxLines } }

InitParse ==
    /\ text \in ParseTexts
    /\ parsed = Pending
    /\ oddValues = << >> /\ evenValues = << >> /\ slotSync = Pending /\ slotApp = Pending
    /\ grid = << >> /\ appDays = Pending /\ appOut = Pending
    /\ response = Pending /\ syncDays = Pending /\ syncOut = Pending
    /\ tutorsOut = Pending /\ tutorsResponse = Pending

\* one call parse_event(text)
ParseCell ==
    /\ parsed = Pending
    /\ parsed' = parse_event(text)
    /\ UNCHANGED <<text, oddValues, evenValues, slotSync, slotApp,
                   grid, appDays, appOut, response, syncDays, syncOut,
                   tutorsOut, tutorsResponse>>

NextParse == ParseCell

SpecParse == InitParse /\ [][NextParse]_vars


(***************************************************************************)
(* C4. For every non-empty cell text parse_event either returns a          *)
(* sub-event record or raises InvalidEventFormatError, and never another   *)
(* error; a text whose lines are not one of the 3-line / 4-line shapes     *)
(* raises InvalidEventFormatError.                                         *)
(***************************************************************************)
C4_OnlyInvalidFormat ==
    parsed # Pending =>
        /\ IsError(parsed) => parsed = InvalidEventFormatError
        /\ Len(EventParts(text)) \notin {3, 4} => parsed = InvalidEventFormatError

(***************************************************************************)
(* C5. For every text of the 4-line form parse_event returns a record with *)
(* exactly the fields groups, name, type, tutor, location, whose type is   *)
(* one of the SubEventType values and whose name is the subject line       *)
(* without its last token. (Stated of the records parse_event returns: a   *)
(* 4-line text on which it raises is C4's case.)                           *)
(***************************************************************************)
FourLineForm(t) == Len(EventParts(t)) = 4

C5_FourLineRecord ==
    (parsed # Pending /\ ~IsError(parsed) /\ FourLineForm(text)) =>
        /\ DOMAIN parsed = {"groups", "name", "type", "tutor", "location"}
        /\ parsed.type \in SubEventType
        /\ LET subject == EventParts(text)[2]
           IN  \E sep \in 1..Len(subject) :
                   /\ subject[sep] \in Whitespace
                   /\ \A k \in (sep + 1)..Len(subject) : subject[k] \notin Whitespace
                   /\ parsed.name = Strip(SubSeq(subject, 1, sep))

(***************************************************************************)
(* src/sync_schedule.py: the Slot Reconciler over K sub-columns.           *)
(***************************************************************************)
\* what events[0] raises on an empty list
IndexError == [error |-> "IndexError"]

all_same(items) == \A i \in 1..Len(items) : items[i] = items[1]

\* mutant: the emptiness test of an all-same side is dropped
normalize_subevents_no_single(events) ==
    IF all_same(events)
    THEN IF events = << >> THEN IndexError ELSE [type |-> "empty"]
    ELSE [type |-> "multiple", events |-> events]

normalize_subevents(events) ==
    IF all_same(events)
    THEN IF events = << >> THEN IndexError
         ELSE IF ~Truthy(events[1]) THEN [type |-> "empty"]
         ELSE [type |-> "single", event |-> events[1]]
    ELSE [type |-> "multiple", events |-> events]

normalize_event(odd, even) ==
    IF \A i \in 1..Len(odd \o even) : (odd \o even)[i] = None
    THEN NoneResult
    ELSE IF odd = even
    THEN IF all_same(odd)
         THEN [type |-> "single", event |-> odd[1]]
         ELSE [type |-> "vertical",
               events |-> [i \in 1..Len(odd) |->
                              IF Truthy(odd[i])
                              THEN [type |-> "single", event |-> odd[i]]
                              ELSE [type |-> "empty"]]]
    ELSE LET o == normalize_subevents(odd)
             e == normalize_subevents(even)
         IN  IF IsError(o) THEN o
             ELSE IF IsError(e) THEN e
             ELSE [type |-> "horizontal", events |-> <<o, e>>]

(***************************************************************************)
(* src/app.py: the Slot Reconciler for one column (K = 1). A falsy side of *)
(* the nominator/denominator dict (`odd and parse_event(odd)`) keeps the   *)
(* falsy cell value, here wrapped in a record.                             *)
(***************************************************************************)
Falsy(v) == [falsy |-> v]

normalize_event_app(odd, even) ==
    IF ~Truthy(odd) /\ ~Truthy(even)
    THEN NoneResult
    ELSE IF odd = even
    THEN LET p == parse_event(odd)
         IN  IF IsError(p) THEN p ELSE [simple |-> p]
    ELSE LET n == IF Truthy(odd) THEN parse_event(odd) ELSE Falsy(odd)
             d == IF Truthy(even) THEN parse_event(even) ELSE Falsy(even)
         IN  IF IsError(n) THEN n
             ELSE IF IsError(d) THEN d
             ELSE [nominator |-> n, denominator |-> d]

(***************************************************************************)
(* The values drawn for the Slot Reconciler: what the Schedule Builder     *)
(* hands over for a raw cell, `event and event.strip()`.                   *)
(***************************************************************************)
CellValue(event) == IF Truthy(event) THEN Strip(event) ELSE event

\* raw cells: no value, blanks only, two well-formed texts, a 2-line text
CellBlank == <<" ">>
CellMath == <<" ">> \o JoinLines(<<LineLecture, <<"S">>, <<"R">> >>)
CellPhys == JoinLines(<<LineGroups, LineQuotedLab, <<"J">>, <<"Q">> >>)
CellTwoLines == JoinLines(<<LineLecture, <<"S">> >>)

RawCells == {None, CellBlank, CellMath, CellPhys, CellTwoLines}

SlotValues == { CellValue(c) : c \in RawCells }

InitReconcile ==
    /\ \E K \in 1..MaxK :
          /\ oddValues \in [1..K -> SlotValues]
          /\ evenValues \in [1..K -> SlotValues]
    /\ slotSync = Pending /\ slotApp = Pending
    /\ text = << >> /\ parsed = Pending
    /\ grid = << >> /\ appDays = Pending /\ appOut = Pending
    /\ response = Pending /\ syncDays = Pending /\ syncOut = Pending
    /\ tutorsOut = Pending /\ tutorsResponse = Pending

\* one call of sync_schedule.py's normalize_event
ReconcileSync ==
    /\ slotSync = Pending
    /\ slotSync' = normalize_event(oddValues, evenValues)
    /\ UNCHANGED <<text, parsed, oddValues, evenValues, slotApp,
                   grid, appDays, appOut, response, syncDays, syncOut,
                   tutorsOut, tutorsResponse>>

\* one call of app.py's normalize_event, which takes one value per side
ReconcileApp ==
    /\ slotApp = Pending
    /\ Len(oddValues) = 1
    /\ slotApp' = normalize_event_app(oddValues[1], evenValues[1])
    /\ UNCHANGED <<text, parsed, oddValues, evenValues, slotSync,
                   grid, appDays, appOut, response, syncDays, syncOut,
                   tutorsOut, tutorsResponse>>

NextReconcile == ReconcileSync \/ ReconcileApp

SpecReconcile == InitReconcile /\ [][NextReconcile]_vars


(***************************************************************************)
(* The vocabulary of the Slot Reconciler's claims. A cell value is a       *)
(* non-empty stripped text or absent; None and the empty string that       *)
(* strip() leaves of a blank cell are both absent. Two values are the same *)
(* when both are absent or both are the same text.                         *)
(***************************************************************************)
Absent(v) == ~Truthy(v)

AllAbsent ==
    \A i \in 1..Len(oddValues) : Absent(oddValues[i]) /\ Absent(evenValues[i])

SameValue(a, b) == (Absent(a) /\ Absent(b)) \/ a = b

SidesSame ==
    \A i \in 1..Len(oddValues) : SameValue(oddValues[i], evenValues[i])

TypeOf(r) == IF "type" \in DOMAIN r THEN r.type ELSE "none"

IsHorizontalApp(r) == DOMAIN r = {"nominator", "denominator"}

IsSubEvent(r) == "type" \in DOMAIN r

\* a side of a horizontal slot of sync_schedule.py that holds some text
SideCarriesEvent(side) ==
    \/ TypeOf(side) = "single"
    \/ /\ TypeOf(side) = "multiple"
       /\ \E i \in 1..Len(side.events) : Truthy(side.events[i])

(***************************************************************************)
(* C1. normalize_event returns None if and only if every value of both     *)
(* vectors is absent (for app.py: whenever it returns rather than raises   *)
(* the parser's error).                                                    *)
(***************************************************************************)
C1_NoneIffAllAbsent ==
    /\ slotSync # Pending => (slotSync = NoneResult <=> AllAbsent)
    /\ (slotApp # Pending /\ ~IsError(slotApp)) =>
           (slotApp = NoneResult <=> AllAbsent)

(***************************************************************************)
(* C2. Where the odd and even values of a slot differ, normalize_event     *)
(* returns the horizontal variant (type "horizontal" in sync_schedule.py,  *)
(* nominator/denominator in app.py when no side fails to parse) and at     *)
(* least one of the two sides carries an event.                            *)
(***************************************************************************)
C2_DifferentSidesHorizontal ==
    ~SidesSame =>
        /\ slotSync # Pending =>
               /\ TypeOf(slotSync) = "horizontal"
               /\ \/ SideCarriesEvent(slotSync.events[1])
                  \/ SideCarriesEvent(slotSync.events[2])
        /\ (slotApp # Pending /\ ~IsError(slotApp)) =>
               /\ IsHorizontalApp(slotApp)
               /\ IsSubEvent(slotApp.nominator) \/ IsSubEvent(slotApp.denominator)

\* a slot with different sides that both programs reconciled to horizontal
C2_Witness ==
    /\ ~SidesSame
    /\ TypeOf(slotSync) = "horizontal"
    /\ IsHorizontalApp(slotApp)

(***************************************************************************)
(* C3. Where the odd and even values of a slot are identical position by   *)
(* position (both absent included), normalize_event never returns the      *)
(* horizontal variant.                                                     *)
(***************************************************************************)
C3_SameSidesNeverHorizontal ==
    SidesSame =>
        /\ TypeOf(slotSync) # "horizontal"
        /\ ~IsHorizontalApp(slotApp)

(***************************************************************************)
(* C10. Where the odd and even vectors are equal position by position and  *)
(* not all absent, sync_schedule.py's normalize_event returns single with  *)
(* that text when all K values are the same, and otherwise vertical with K *)
(* entries in sub-column order: an event for a present value, an empty     *)
(* marker for an absent one.                                               *)
(***************************************************************************)
C10_EqualSidesSingleOrVertical ==
    (slotSync # Pending /\ SidesSame /\ ~AllAbsent) =>
        IF \A i \in 1..Len(oddValues) : SameValue(oddValues[i], oddValues[1])
        THEN slotSync = [type |-> "single", event |-> oddValues[1]]
        ELSE /\ TypeOf(slotSync) = "vertical"
             /\ Len(slotSync.events) = Len(oddValues)
             /\ \A i \in 1..Len(oddValues) :
                    slotSync.events[i] =
                        IF Absent(oddValues[i])
                        THEN [type |-> "empty"]
                        ELSE [type |-> "single", event |-> oddValues[i]]


(***************************************************************************)
(* Insertion-ordered dicts (dict, defaultdict): a sequence of entries      *)
(* [k |-> key, v |-> value], in insertion order.                           *)
(***************************************************************************)
OdHas(od, key) == \E i \in 1..Len(od) : od[i].k = key

OdIndex(od, key) == CHOOSE i \in 1..Len(od) : od[i].k = key

\* d[key] of a defaultdict, without the insertion
OdGet(od, key, default) ==
    IF OdHas(od, key) THEN od[OdIndex(od, key)].v ELSE default

\* d[key] = value: a new key goes last, a known key keeps its place
OdSet(od, key, value) ==
    IF OdHas(od, key)
    THEN [od EXCEPT ![OdIndex(od, key)].v = value]
    ELSE Append(od, [k |-> key, v |-> value])

\* {k: d[k] for k in sorted(d, key=table.index)}
RECURSIVE SortedByIndex(_, _)
SortedByIndex(od, table) ==
    IF od = << >> THEN << >>
    ELSE LET m == CHOOSE i \in 1..Len(od) :
                      \A j \in 1..Len(od) :
                          IndexOf(table, od[i].k) <= IndexOf(table, od[j].k)
         IN  <<od[m]>>
             \o With([j \in 1..(Len(od) - 1) |->
                         IF j < m THEN od[j] ELSE od[j + 1]],
                     LAMBDA rest : SortedByIndex(rest, table))

\* the first raised error of a sequence of outcomes evaluated in order
HasError(outcomes) == \E i \in 1..Len(outcomes) : IsError(outcomes[i])

FirstError(outcomes) ==
    outcomes[CHOOSE i \in 1..Len(outcomes) :
                 IsError(outcomes[i])
                 /\ \A j \in 1..(i - 1) : ~IsError(outcomes[j])]

\* [x for x in seq if x], where the falsy items are NoneResult
RECURSIVE KeptFrom(_, _)
KeptFrom(seq, i) ==
    IF i > Len(seq) THEN << >>
    ELSE (IF seq[i] # NoneResult THEN <<seq[i]>> ELSE << >>)
         \o KeptFrom(seq, i + 1)

Kept(seq) == With(seq, LAMBDA items : KeptFrom(items, 1))

(***************************************************************************)
(* The grid: the rows of the data frame, each with its day label, its      *)
(* (start time, week token) pair and one raw cell per column.              *)
(***************************************************************************)
\* the column headers df.columns[2:]
Columns == << <<"A", "/", "1">>, <<"A", "/", "2">> >>

\* the week token of the nominator rows, "ч"; the loader's other token is "з"
WeekNominator == "ch"

GridDays == {RAW_DAYS[1], RAW_DAYS[2]}
GridTimes == {EVENT_START_TIMES[1]}
GridWeeks == {WeekNominator, "z", "x"}
\* the cells of one row, one per column: no event, an event in one
\* sub-column, a well-formed beside a 2-line text, a 2-line text alone, the
\* same event in both sub-columns
GridCells ==
    { <<None, None>>, <<None, CellMath>>, <<CellMath, CellTwoLines>>,
      <<CellTwoLines, None>>, <<CellMath, CellMath>> }

GridRows ==
    [day : GridDays, time : GridTimes, week : GridWeeks,
     cells : GridCells]

\* mutant: int(week == "ч")
WeekIndex_flipped(week) == IF week = WeekNominator THEN 2 ELSE 1

\* int(week != "ч"), as a 1-based position
WeekIndex(week) == IF week # WeekNominator THEN 2 ELSE 1

(***************************************************************************)
(* src/app.py: the Schedule Builder for one group column.                  *)
(***************************************************************************)
\* one iteration of the loop over df.itertuples() of get_group_schedule
ScanRowApp(days, row, col) ==
    LET times == OdGet(days, row.day, << >>)
        events == OdGet(times, row.time, <<None, None>>)
    IN  OdSet(days, row.day,
              OdSet(times, row.time,
                    [events EXCEPT ![WeekIndex(row.week)] =
                                       CellValue(row.cells[col])]))

\* the `days` dict after the first n rows
RECURSIVE ScanApp(_, _, _)
ScanApp(rows, n, col) ==
    IF n = 0 THEN << >>
    ELSE With(ScanApp(rows, n - 1, col),
              LAMBDA days : ScanRowApp(days, rows[n], col))

PrefillSubEvent(subevent, group) ==
    IF ~IsSubEvent(subevent) THEN subevent
    ELSE IF "groups" \notin DOMAIN subevent
         THEN subevent @@ [groups |-> <<group>>]
         ELSE IF subevent.groups = << >>
              THEN [subevent EXCEPT !.groups = <<group>>]
              ELSE subevent

prefill_missed_groups(event, group) ==
    [key \in DOMAIN event |-> PrefillSubEvent(event[key], group)]

\* one item of the day_events comprehension: the event dict of a start
\* time, NoneResult for a slot that is dropped, or the parser's error
DayEventApp(entry, group) ==
    With(normalize_event_app(entry.v[1], entry.v[2]),
         LAMBDA event :
             IF IsError(event) \/ event = NoneResult THEN event
             ELSE [startTime |-> entry.k,
                   endTime |-> EVENT_END_TIMES[IndexOf(EVENT_START_TIMES, entry.k)],
                   order |-> IndexOf(EVENT_START_TIMES, entry.k)]
                  @@ prefill_missed_groups(event, group))

\* mutant: a slot whose cell fails to parse is skipped
DayEventsApp_skip(times, group) ==
    With([i \in 1..Len(times) |-> DayEventApp(times[i], group)],
         LAMBDA items :
             [events |->
                 Kept([i \in 1..Len(times) |->
                          IF items[i] = NoneResult \/ IsError(items[i])
                          THEN NoneResult
                          ELSE [k |-> times[i].k, v |-> items[i]]])])

\* the day_events dict of one day, keyed by start time, or the first error
\* raised building it
DayEventsApp(times, group) ==
    With([i \in 1..Len(times) |-> DayEventApp(times[i], group)],
         LAMBDA items :
             IF HasError(items) THEN FirstError(items)
             ELSE [events |->
                      Kept([i \in 1..Len(times) |->
                               IF items[i] = NoneResult THEN NoneResult
                               ELSE [k |-> times[i].k, v |-> items[i]]])])

\* the result dict of get_group_schedule, keyed by day, as
\* [schedule |-> its entries in insertion order], or the error it raises
BuildGroupSchedule(days, group) ==
    With([i \in 1..Len(days) |-> DayEventsApp(days[i].v, group)],
         LAMBDA built :
             IF HasError(built) THEN FirstError(built)
             ELSE [schedule |->
                      Kept([i \in 1..Len(days) |->
                               IF built[i].events = << >> THEN NoneResult
                               ELSE [k |-> RAW_DAY_TO_DAY(days[i].k),
                                     v |-> built[i].events]])])

get_group_schedule(rows, col) ==
    With(ScanApp(rows, Len(rows), col),
         LAMBDA days : BuildGroupSchedule(days, Columns[col]))

(***************************************************************************)
(* src/app.py: the response model of /schedules (RootSchedulesSchema).     *)
(***************************************************************************)
\* what FastAPI raises when the returned value does not fit response_model
ResponseValidationError == [error |-> "ResponseValidationError"]

StripedOrNone(subevent, key) ==
    IF key \in DOMAIN subevent THEN Strip(subevent[key]) ELSE None

\* a value validated as SubEventSchema | None; a groups field that is None
\* is left out of the record
SubEventSchema(subevent) ==
    IF ~IsSubEvent(subevent)
    THEN IF subevent.falsy = None THEN NoneResult ELSE ResponseValidationError
    ELSE IF subevent.type \notin SubEventType THEN ResponseValidationError
    ELSE LET fields == [type |-> subevent.type,
                        name |-> StripedOrNone(subevent, "name"),
                        location |-> StripedOrNone(subevent, "location"),
                        tutor |-> StripedOrNone(subevent, "tutor")]
         IN  IF "groups" \in DOMAIN subevent
             THEN fields @@ [groups |-> MapSeq(subevent.groups, Strip)]
             ELSE fields

\* [g for g in items if g not in seen]
RECURSIVE NotIn(_, _)
NotIn(items, seen) ==
    IF items = << >> THEN << >>
    ELSE (IF \E i \in 1..Len(seen) : seen[i] = Head(items)
          THEN << >> ELSE <<Head(items)>>)
         \o NotIn(Tail(items), seen)

\* subevent.groups or [], of a validated nominator or denominator
GroupsOrEmpty(subevent) ==
    IF "groups" \in DOMAIN subevent THEN subevent.groups ELSE << >>

\* EventSchema.__validate_subevents__
ValidateSubevents(event) ==
    IF event.simple = NoneResult THEN event
    ELSE LET nom == GroupsOrEmpty(event.nominator)
             groups == nom \o NotIn(GroupsOrEmpty(event.denominator), nom)
             current == GroupsOrEmpty(event.simple)
         IN  [event EXCEPT
                 !.nominator = NoneResult,
                 !.denominator = NoneResult,
                 !.simple = IF groups = << >> THEN @
                            ELSE [groups |-> current \o NotIn(groups, current)]
                                 @@ @]

\* a value validated as EventSchema
EventSchema(event) ==
    LET field(key) == IF key \in DOMAIN event
                      THEN SubEventSchema(event[key])
                      ELSE NoneResult
    IN  With(<<field("nominator"), field("denominator"), field("simple")>>,
             LAMBDA subs :
                 IF HasError(subs) THEN FirstError(subs)
                 ELSE ValidateSubevents(
                          [startTime |-> event.startTime,
                           endTime |-> event.endTime,
                           order |-> event.order,
                           nominator |-> subs[1],
                           denominator |-> subs[2],
                           simple |-> subs[3]]))

\* StartTimeToEvent: the events validated, then ordered by start time
StartTimeToEvent(events) ==
    With([i \in 1..Len(events) |-> EventSchema(events[i].v)],
         LAMBDA checked :
             IF HasError(checked) THEN FirstError(checked)
             ELSE [events |->
                      SortedByIndex([i \in 1..Len(events) |->
                                        [k |-> events[i].k, v |-> checked[i]]],
                                    EVENT_START_TIMES)])

\* mutant: the AfterValidator that sorts the days is missing
DayToEvents_unsorted(schedule) ==
    With([i \in 1..Len(schedule) |-> StartTimeToEvent(schedule[i].v)],
         LAMBDA checked :
             IF HasError(checked) THEN FirstError(checked)
             ELSE [days |-> [i \in 1..Len(schedule) |->
                                [k |-> schedule[i].k, v |-> checked[i].events]]])

\* DayToEvents: the days validated, then ordered by weekday
DayToEvents(schedule) ==
    With([i \in 1..Len(schedule) |-> StartTimeToEvent(schedule[i].v)],
         LAMBDA checked :
             IF HasError(checked) THEN FirstError(checked)
             ELSE [days |->
                      SortedByIndex([i \in 1..Len(schedule) |->
                                        [k |-> schedule[i].k,
                                         v |-> checked[i].events]],
                                    DAYS)])

\* get_schedule with for=students: the schedule of every group column, then
\* the response model; the first error raised ends the request
GroupSchedules(rows) == [c \in 1..Len(Columns) |-> get_group_schedule(rows, c)]

\* the value returned by get_schedule, fitted to RootSchedulesSchema
RootSchedulesSchema(schedules) ==
    With([c \in 1..Len(Columns) |-> DayToEvents(schedules[c].schedule)],
         LAMBDA checked :
             IF HasError(checked) THEN FirstError(checked)
             ELSE [schedules |->
                      [c \in 1..Len(Columns) |->
                          [k |-> Strip(Columns[c]), v |-> checked[c].days]]])

get_schedule(rows) ==
    With(GroupSchedules(rows),
         LAMBDA schedules :
             IF HasError(schedules) THEN FirstError(schedules)
             ELSE RootSchedulesSchema(schedules))


(***************************************************************************)
(* src/sync_schedule.py: the Group Resolver and the Schedule Builder for   *)
(* the sub-columns of one group.                                           *)
(***************************************************************************)
Digits == {"0", "1", "2", "3", "4", "5", "6", "7", "8", "9"}

\* whether r is matched in full by \d+.? (the dot matches no newline)
DigitsThenOne(r) ==
    /\ r # << >>
    /\ r[1] \in Digits
    /\ \A k \in 1..(Len(r) - 1) : r[k] \in Digits
    /\ r[Len(r)] # "\n"

\* whether (\/|-)\d+.?$ matches at position i of s; $ stands at the end of
\* s or before its last newline
SuffixAt(s, i) ==
    /\ s[i] \in {"/", "-"}
    /\ LET r == SubSeq(s, i + 1, Len(s))
       IN  \/ DigitsThenOne(r)
           \/ /\ r # << >> /\ r[Len(r)] = "\n"
              /\ DigitsThenOne(SubSeq(r, 1, Len(r) - 1))

\* re.sub(r"(\/|-)\d+.?$", "", subgroup): the leftmost match is cut out
get_group_name(subgroup) ==
    IF \E i \in 1..Len(subgroup) : SuffixAt(subgroup, i)
    THEN LET i == CHOOSE j \in 1..Len(subgroup) :
                      SuffixAt(subgroup, j)
                      /\ \A k \in 1..(j - 1) : ~SuffixAt(subgroup, k)
             r == SubSeq(subgroup, i + 1, Len(subgroup))
         IN  SubSeq(subgroup, 1, i - 1)
             \o (IF DigitsThenOne(r) THEN << >> ELSE <<"\n">>)
    ELSE subgroup

\* get_groups: group name -> the positions of its sub-columns, both in
\* first-seen order
RECURSIVE GroupColumns(_)
GroupColumns(n) ==
    IF n = 0 THEN << >>
    ELSE With(GroupColumns(n - 1),
              LAMBDA groups :
                  OdSet(groups, get_group_name(Columns[n]),
                        Append(OdGet(groups, get_group_name(Columns[n]), << >>), n)))

get_groups == GroupColumns(Len(Columns))

\* mutant: the row's values replace the list instead of extending it
ScanRowSync_overwrite(days, row, sub_entities) ==
    LET times == OdGet(days, row.day, << >>)
        events == OdGet(times, row.time, << << >>, << >> >>)
    IN  OdSet(days, row.day,
              OdSet(times, row.time,
                    [events EXCEPT ![WeekIndex(row.week)] =
                        [i \in 1..Len(sub_entities) |->
                            CellValue(row.cells[sub_entities[i]])]]))

\* one iteration of the outer loop of get_grouped_schedule: every
\* sub-column's value of the row is appended to the list of the row's week
ScanRowSync(days, row, sub_entities) ==
    LET times == OdGet(days, row.day, << >>)
        events == OdGet(times, row.time, << << >>, << >> >>)
    IN  OdSet(days, row.day,
              OdSet(times, row.time,
                    [events EXCEPT ![WeekIndex(row.week)] =
                        @ \o [i \in 1..Len(sub_entities) |->
                                 CellValue(row.cells[sub_entities[i]])]]))

\* the `days` dict after the first n rows
RECURSIVE ScanSync(_, _, _)
ScanSync(rows, n, sub_entities) ==
    IF n = 0 THEN << >>
    ELSE With(ScanSync(rows, n - 1, sub_entities),
              LAMBDA days : ScanRowSync(days, rows[n], sub_entities))

\* "{time} - {end}"
TimeLabel(time) ==
    <<time, " - ", EVENT_END_TIMES[IndexOf(EVENT_START_TIMES, time)]>>

\* one item of the day_events comprehension
DayEventSync(entry) ==
    With(normalize_event(entry.v[1], entry.v[2]),
         LAMBDA event :
             IF IsError(event) \/ event = NoneResult THEN event
             ELSE [time |-> TimeLabel(entry.k),
                   order |-> IndexOf(EVENT_START_TIMES, entry.k),
                   event |-> event])

DayEventsSync(times) ==
    With([i \in 1..Len(times) |-> DayEventSync(times[i])],
         LAMBDA items :
             IF HasError(items) THEN FirstError(items)
             ELSE [events |-> Kept(items)])

\* the list get_grouped_schedule returns, as [schedule |-> the list], or the
\* error it raises
BuildGroupedSchedule(days) ==
    With([i \in 1..Len(days) |-> DayEventsSync(days[i].v)],
         LAMBDA built :
             IF HasError(built) THEN FirstError(built)
             ELSE [schedule |->
                      Kept([i \in 1..Len(days) |->
                               IF built[i].events = << >> THEN NoneResult
                               ELSE [day |-> days[i].k,
                                     events |-> built[i].events]])])

get_grouped_schedule(rows, sub_entities) ==
    With(ScanSync(rows, Len(rows), sub_entities), BuildGroupedSchedule)

\* get_students_schedule: the document written to students.json, one entry
\* per group, or the first error raised
get_students_schedule(rows) ==
    LET groups == get_groups
    IN  With([g \in 1..Len(groups) |-> get_grouped_schedule(rows, groups[g].v)],
             LAMBDA built :
                 IF HasError(built) THEN FirstError(built)
                 ELSE [schedules |->
                          [g \in 1..Len(groups) |->
                              [k |-> groups[g].k,
                               v |-> [group |-> groups[g].k,
                                      subgroups |->
                                          [i \in 1..Len(groups[g].v) |->
                                              Columns[groups[g].v[i]]],
                                      schedule |-> built[g].schedule]]]])

(***************************************************************************)
(* The Schedule Builder's runs over one loaded grid: a /schedules request  *)
(* of app.py and a students sync of sync_schedule.py. Each keeps, beside   *)
(* its result, the `days` accumulators its scan ended with.                *)
(***************************************************************************)
Grids == UNION { [1..n -> GridRows] : n \in 0..MaxRows }

Init ==
    /\ grid \in Grids
    /\ appDays = Pending /\ appOut = Pending /\ response = Pending
    /\ syncDays = Pending /\ syncOut = Pending
    /\ tutorsOut = Pending /\ tutorsResponse = Pending
    /\ text = << >> /\ parsed = Pending
    /\ oddValues = << >> /\ evenValues = << >>
    /\ slotSync = Pending /\ slotApp = Pending

\* GET /schedules?for=students
GetSchedule ==
    /\ response = Pending
    /\ appDays' = [days |-> [c \in 1..Len(Columns) |->
                                ScanApp(grid, Len(grid), c)]]
    /\ appOut' = [results |-> GroupSchedules(grid)]
    /\ response' = get_schedule(grid)
    /\ UNCHANGED <<text, parsed, oddValues, evenValues, slotSync, slotApp,
                   grid, syncDays, syncOut, tutorsOut, tutorsResponse>>

\* get_students_schedule() of the sync job
SyncStudents ==
    /\ syncOut = Pending
    /\ syncDays' = [days |-> [g \in 1..Len(get_groups) |->
                                 ScanSync(grid, Len(grid), get_groups[g].v)]]
    /\ syncOut' = get_students_schedule(grid)
    /\ UNCHANGED <<text, parsed, oddValues, evenValues, slotSync, slotApp,
                   grid, appDays, appOut, response, tutorsOut, tutorsResponse>>

Next == GetSchedule \/ SyncStudents

Spec == Init /\ [][Next]_vars


(***************************************************************************)
(* The vocabulary of the Schedule Builder's claims, read off the grid.     *)
(***************************************************************************)
\* the other week token the loaders write, "з"
WeekDenominator == "z"

Coordinates == { <<grid[i].day, grid[i].time>> : i \in 1..Len(grid) }

\* the rows of a coordinate whose week token satisfies onSide
RowsOn(coord, onSide(_)) ==
    { i \in 1..Len(grid) :
        grid[i].day = coord[1] /\ grid[i].time = coord[2] /\ onSide(grid[i].week) }

IsNominatorToken(week) == week = WeekNominator
IsOtherToken(week) == week # WeekNominator

Last(S) == CHOOSE i \in S : \A j \in S : j <= i

\* the value a column keeps of a set of rows when each row overwrites the last
LastValue(S, col) == IF S = {} THEN None ELSE CellValue(grid[Last(S)].cells[col])

\* the j-th row of S, in grid order
Nth(S, j) == CHOOSE i \in S : Cardinality({k \in S : k <= i}) = j

SlotOfApp(col, coord) ==
    OdGet(OdGet(appDays.days[col], coord[1], << >>), coord[2], <<None, None>>)

SlotOfSync(g, coord) ==
    OdGet(OdGet(syncDays.days[g], coord[1], << >>), coord[2], << << >>, << >> >>)

SubColumns(g) == get_groups[g].v

(***************************************************************************)
(* C8 (as amended). A row's values are recorded on the odd (nominator)     *)
(* side exactly when its week token equals the fixed marker "ч", and on    *)
(* the even (denominator) side for every other token: in app.py each side  *)
(* of a slot holds the value of the last row of that side, in              *)
(* sync_schedule.py each side holds K values per row of that side.         *)
(***************************************************************************)
C8_MarkerRowsAreOdd ==
    /\ appDays # Pending =>
           \A col \in 1..Len(Columns) : \A coord \in Coordinates :
               /\ SlotOfApp(col, coord)[1]
                      = LastValue(RowsOn(coord, IsNominatorToken), col)
               /\ SlotOfApp(col, coord)[2]
                      = LastValue(RowsOn(coord, IsOtherToken), col)
    /\ syncDays # Pending =>
           \A g \in 1..Len(get_groups) : \A coord \in Coordinates :
               /\ Len(SlotOfSync(g, coord)[1])
                      = Len(SubColumns(g))
                            * Cardinality(RowsOn(coord, IsNominatorToken))
               /\ Len(SlotOfSync(g, coord)[2])
                      = Len(SubColumns(g))
                            * Cardinality(RowsOn(coord, IsOtherToken))

\* both programs scanned a grid with a row of the marker and a row of a
\* token that is neither "ч" nor "з", at one coordinate
C8_Witness ==
    /\ appDays # Pending /\ syncDays # Pending
    /\ \E coord \in Coordinates :
           /\ RowsOn(coord, IsNominatorToken) # {}
           /\ RowsOn(coord, LAMBDA w : w \notin {WeekNominator, WeekDenominator}) # {}
           /\ \E col \in 1..Len(Columns) :
                  Truthy(SlotOfApp(col, coord)[1]) /\ Truthy(SlotOfApp(col, coord)[2])

(***************************************************************************)
(* C8 (as claimed). A row is recorded on the odd side unless its token is  *)
(* the fixed marker of the even week; in particular a row whose token is   *)
(* any other character is odd. Read with "з" as the even marker, the       *)
(* reading that agrees with the code on both tokens the loaders write.     *)
(***************************************************************************)
IsEvenMarker(week) == week = WeekDenominator
IsNotEvenMarker(week) == week # WeekDenominator

C8_OddUnlessEvenMarker ==
    /\ appDays # Pending =>
           \A col \in 1..Len(Columns) : \A coord \in Coordinates :
               /\ SlotOfApp(col, coord)[1]
                      = LastValue(RowsOn(coord, IsNotEvenMarker), col)
               /\ SlotOfApp(col, coord)[2]
                      = LastValue(RowsOn(coord, IsEvenMarker), col)
    /\ syncDays # Pending =>
           \A g \in 1..Len(get_groups) : \A coord \in Coordinates :
               /\ Len(SlotOfSync(g, coord)[1])
                      = Len(SubColumns(g))
                            * Cardinality(RowsOn(coord, IsNotEvenMarker))
               /\ Len(SlotOfSync(g, coord)[2])
                      = Len(SubColumns(g))
                            * Cardinality(RowsOn(coord, IsEvenMarker))

(***************************************************************************)
(* C9 (as claimed). After get_grouped_schedule has scanned the grid, the   *)
(* odd and the even vector of every (day, slot) have length exactly K.     *)
(***************************************************************************)
C9_VectorsHaveLengthK ==
    syncDays # Pending =>
        \A g \in 1..Len(get_groups) : \A coord \in Coordinates :
            /\ Len(SlotOfSync(g, coord)[1]) = Len(SubColumns(g))
            /\ Len(SlotOfSync(g, coord)[2]) = Len(SubColumns(g))

(***************************************************************************)
(* C9 (as amended). After the scan each vector of a (day, slot) holds K    *)
(* values per grid row of its parity at that coordinate, row after row in  *)
(* grid order, the i-th value of a row's block being the stripped value of *)
(* sub-column i; so it has length exactly K, position i holding            *)
(* sub-column i, when the coordinate has exactly one row of that parity.   *)
(***************************************************************************)
VectorIsRowBlocks(vector, rows, g) ==
    LET K == Len(SubColumns(g))
    IN  /\ Len(vector) = K * Cardinality(rows)
        /\ \A j \in 1..Cardinality(rows) : \A i \in 1..K :
               vector[(j - 1) * K + i]
                   = CellValue(grid[Nth(rows, j)].cells[SubColumns(g)[i]])

C9_VectorsAreRowBlocks ==
    syncDays # Pending =>
        \A g \in 1..Len(get_groups) : \A coord \in Coordinates :
            /\ VectorIsRowBlocks(SlotOfSync(g, coord)[1],
                                 RowsOn(coord, IsNominatorToken), g)
            /\ VectorIsRowBlocks(SlotOfSync(g, coord)[2],
                                 RowsOn(coord, IsOtherToken), g)

\* a scanned coordinate with two rows of one parity and none of the other,
\* whose sub-columns hold different values
C9_Witness ==
    /\ syncDays # Pending
    /\ \E coord \in Coordinates :
           /\ Cardinality(RowsOn(coord, IsNominatorToken)) = 2
           /\ RowsOn(coord, IsOtherToken) = {}
           /\ \E g \in 1..Len(get_groups) :
                  /\ Len(SubColumns(g)) = 2
                  /\ SlotOfSync(g, coord)[1][1] # SlotOfSync(g, coord)[1][2]


(***************************************************************************)
(* The orders of the day entries of the three outputs.                     *)
(***************************************************************************)
DayKeys(od) == [i \in 1..Len(od) |-> od[i].k]

InTableOrder(days, table) ==
    \A a, b \in 1..Len(days) :
        a < b => IndexOf(table, days[a]) < IndexOf(table, days[b])

FirstRowOf(rawDay) ==
    CHOOSE i \in 1..Len(grid) :
        grid[i].day = rawDay /\ \A j \in 1..(i - 1) : grid[j].day # rawDay

\* the raw labels rawDays appear in the grid in this order
InGridOrder(rawDays) ==
    \A a, b \in 1..Len(rawDays) :
        a < b => FirstRowOf(rawDays[a]) < FirstRowOf(rawDays[b])

RawDayOf(day) == RAW_DAYS[IndexOf(DAYS, day)]

ResponseDays(col) == DayKeys(response.schedules[col].v)

AppOutDays(col) == DayKeys(appOut.results[col].schedule)

SyncOutDays(g) ==
    [i \in 1..Len(syncOut.schedules[g].v.schedule) |->
        syncOut.schedules[g].v.schedule[i].day]

Returned(out) == out # Pending /\ ~IsError(out)

FailsToParse(v) == Truthy(v) /\ IsError(parse_event(v))

GridValues ==
    { CellValue(grid[i].cells[col]) : i \in 1..Len(grid), col \in 1..Len(Columns) }

\* the values get_group_schedule keeps: per column, day, start time and
\* side, the value of the last row
RetainedApp ==
    UNION { { LastValue(RowsOn(coord, IsNominatorToken), col),
              LastValue(RowsOn(coord, IsOtherToken), col) } :
            coord \in Coordinates, col \in 1..Len(Columns) }

ParserErrors == {InvalidEventFormatError, ValueError}

\* the texts a slot of sync_schedule.py carries
EntryTexts(e) ==
    IF TypeOf(e) = "single" THEN {e.event}
    ELSE IF TypeOf(e) = "multiple" THEN { e.events[i] : i \in 1..Len(e.events) }
    ELSE {}

SlotTexts(slot) ==
    IF TypeOf(slot) \in {"vertical", "horizontal"}
    THEN UNION { EntryTexts(slot.events[i]) : i \in 1..Len(slot.events) }
    ELSE EntryTexts(slot)

SyncTexts ==
    UNION { SlotTexts(syncOut.schedules[g].v.schedule[d].events[e].event) :
            <<g, d, e>> \in
                { t \in (1..Len(get_groups)) \X (1..MaxRows) \X (1..MaxRows) :
                    /\ t[2] <= Len(syncOut.schedules[t[1]].v.schedule)
                    /\ t[3] <= Len(syncOut.schedules[t[1]].v.schedule[t[2]].events) } }

(***************************************************************************)
(* C6 (as claimed). If any non-absent cell of the grid is malformed, the   *)
(* run fails with InvalidEventFormatError and returns no schedule, in the  *)
(* /schedules service and in the sync job alike.                           *)
(***************************************************************************)
C6_MalformedCellFailsRun ==
    (\E v \in GridValues : FailsToParse(v)) =>
        /\ response # Pending => response = InvalidEventFormatError
        /\ syncOut # Pending => syncOut = InvalidEventFormatError

(***************************************************************************)
(* C6 (as amended). Over a grid with the known day labels and start times: *)
(* in app.py, if parse_event raises for any cell value the builder keeps   *)
(* (the last row of its column, day, start time and parity side), the      *)
(* request fails with a parser error of such a cell and returns no         *)
(* mapping, and otherwise it does not fail with a parser error.            *)
(* sync_schedule.py never parses a cell: it never fails with a parser      *)
(* error, and whenever it returns, every non-absent cell text of the grid, *)
(* malformed or not, is in its output as it stands.                        *)
(***************************************************************************)
C6_AppFailsSyncPassesThrough ==
    /\ response # Pending =>
           IF \E v \in RetainedApp : FailsToParse(v)
           THEN response \in { parse_event(v) : v \in { w \in RetainedApp : FailsToParse(w) } }
           ELSE response \notin ParserErrors
    /\ syncOut # Pending =>
           /\ syncOut \notin ParserErrors
           /\ ~IsError(syncOut) =>
                  \A v \in GridValues : Truthy(v) => v \in SyncTexts

\* a grid with a 2-line cell on which the request failed and the sync job
\* returned the text
C6_Witness ==
    /\ response = InvalidEventFormatError
    /\ Returned(syncOut)
    /\ \E v \in GridValues : FailsToParse(v) /\ v \in SyncTexts

(***************************************************************************)
(* src/app.py: /schedules?for=tutors, the students' schedules regrouped by *)
(* tutor.                                                                  *)
(***************************************************************************)
SUB_EVENT_KEYS == <<"nominator", "denominator", "simple">>

\* what a failed assert raises
AssertionError == [error |-> "AssertionError"]

\* {k: v for k, v in d.items() if k not in keys}
remove_keys(d, keys) == [k \in DOMAIN d \ keys |-> d[k]]

\* the items of the lists of a list, in order
RECURSIVE Flatten(_)
Flatten(seqs) ==
    IF seqs = << >> THEN << >> ELSE Head(seqs) \o Flatten(Tail(seqs))

\* the innermost loop of flat_events_for_tutor: the keys of one event whose
\* sub-event is truthy and has a truthy tutor
FlatOfEvent(day, start, event) ==
    Flatten([i \in 1..Len(SUB_EVENT_KEYS) |->
                IF /\ SUB_EVENT_KEYS[i] \in DOMAIN event
                   /\ IsSubEvent(event[SUB_EVENT_KEYS[i]])
                   /\ "tutor" \in DOMAIN event[SUB_EVENT_KEYS[i]]
                   /\ event[SUB_EVENT_KEYS[i]].tutor # << >>
                THEN << [tutor |-> event[SUB_EVENT_KEYS[i]].tutor,
                         day |-> day, start |-> start,
                         key |-> SUB_EVENT_KEYS[i],
                         event |-> event,
                         subevent |-> event[SUB_EVENT_KEYS[i]]] >>
                ELSE << >>])

FlatOfDay(day, events) ==
    Flatten([j \in 1..Len(events) |->
                FlatOfEvent(day, events[j].k, events[j].v)])

FlatOfGroup(days) ==
    Flatten([d \in 1..Len(days) |-> FlatOfDay(days[d].k, days[d].v)])

\* the tuples flat_events_for_tutor yields, in order, over the dict of the
\* groups' schedules
flat_events_for_tutor(schedule) ==
    Flatten([g \in 1..Len(schedule) |-> FlatOfGroup(schedule[g].schedule)])

\* one iteration of the loop of regroup_schedule_for_tutors over
\* tutors_schedules: the merge of the event's own keys, the assert, the store
RegroupStep(ts, item) ==
    LET days == OdGet(ts, item.tutor, << >>)
        starts == OdGet(days, item.day, << >>)
        merged == remove_keys(item.event,
                              {SUB_EVENT_KEYS[i] : i \in 1..Len(SUB_EVENT_KEYS)})
                  @@ OdGet(starts, item.start, << >>)
    IN  IF /\ item.key \in DOMAIN merged
           /\ merged[item.key].name # item.subevent.name
        THEN AssertionError
        ELSE [ts |->
                 OdSet(ts, item.tutor,
                       OdSet(days, item.day,
                             OdSet(starts, item.start,
                                   [k \in DOMAIN merged \cup {item.key} |->
                                       IF k = item.key THEN item.subevent
                                       ELSE merged[k]])))]

RECURSIVE RegroupFrom(_, _, _)
RegroupFrom(ts, items, i) ==
    IF i > Len(items) THEN [ts |-> ts]
    ELSE With(RegroupStep(ts, items[i]),
              LAMBDA next :
                  IF IsError(next) THEN next
                  ELSE RegroupFrom(next.ts, items, i + 1))

\* the characters of the model's tutor names, in code point order
CodePoints ==
    <<" ", "\"", ",", ".", "/",
      "0", "1", "2", "3", "4", "5", "6", "7", "8", "9",
      "A", "B", "C", "D", "E", "F", "G", "H", "I", "J", "K", "L", "M",
      "N", "O", "P", "Q", "R", "S", "T", "U", "V", "W", "X", "Y", "Z", "_",
      "a", "b", "c", "d", "e", "f", "g", "h", "i", "j", "k", "l", "m",
      "n", "o", "p", "q", "r", "s", "t", "u", "v", "w", "x", "y", "z">>

\* a < b for two strings
StrLess(a, b) ==
    \E i \in 1..(Len(a) + 1) :
        /\ i <= Len(b)
        /\ \A j \in 1..(i - 1) : a[j] = b[j]
        /\ (i > Len(a)
            \/ IndexOf(CodePoints, a[i]) < IndexOf(CodePoints, b[i]))

\* {tutor: tutors_schedules[tutor] for tutor in sorted(tutors_schedules)}
RECURSIVE SortedByKey(_)
SortedByKey(od) ==
    IF od = << >> THEN << >>
    ELSE LET m == CHOOSE i \in 1..Len(od) :
                      \A j \in 1..Len(od) : ~StrLess(od[j].k, od[i].k)
         IN  <<od[m]>>
             \o With([j \in 1..(Len(od) - 1) |->
                         IF j < m THEN od[j] ELSE od[j + 1]],
                     LAMBDA rest : SortedByKey(rest))

\* the dict keyed by tutor, as [schedules |-> its entries], or AssertionError
regroup_schedule_for_tutors(schedule) ==
    With(flat_events_for_tutor(schedule),
         LAMBDA items :
             With(RegroupFrom(<< >>, items, 1),
                  LAMBDA done :
                      IF IsError(done) THEN done
                      ELSE [schedules |-> SortedByKey(done.ts)]))

\* the regrouped value fitted to RootSchedulesSchema
TutorsSchedulesSchema(regrouped) ==
    With([t \in 1..Len(regrouped.schedules) |->
             DayToEvents(regrouped.schedules[t].v)],
         LAMBDA checked :
             IF HasError(checked) THEN FirstError(checked)
             ELSE [schedules |->
                      [t \in 1..Len(checked) |->
                          [k |-> Strip(regrouped.schedules[t].k),
                           v |-> checked[t].days]]])

\* what get_schedule computes before it returns, with for=tutors
TutorsSchedules(rows) ==
    With(GroupSchedules(rows),
         LAMBDA schedules :
             IF HasError(schedules) THEN FirstError(schedules)
             ELSE regroup_schedule_for_tutors(schedules))

get_schedule_for_tutors(rows) ==
    With(TutorsSchedules(rows),
         LAMBDA regrouped :
             IF IsError(regrouped) THEN regrouped
             ELSE TutorsSchedulesSchema(regrouped))

(***************************************************************************)
(* A /schedules?for=tutors request over one loaded grid. The rows' cells   *)
(* have one tutor with the same subject in both columns, one tutor with    *)
(* two subjects, two tutors, and a text that does not parse.               *)
(***************************************************************************)
LineOtherLecture == <<"P", " ", "l", "e", "k", ".">>

\* a 3-line text with the tutor of CellMath and another subject
CellChem == JoinLines(<<LineOtherLecture, <<"S">>, <<"R">> >>)

TutorCells ==
    { <<None, CellMath>>, <<CellMath, CellMath>>, <<CellMath, CellChem>>,
      <<CellPhys, CellMath>>, <<CellTwoLines, None>> }

TutorRows ==
    [day : GridDays, time : GridTimes, week : GridWeeks, cells : TutorCells]

TutorGrids == UNION { [1..n -> TutorRows] : n \in 0..MaxRows }

InitTutors ==
    /\ grid \in TutorGrids
    /\ tutorsOut = Pending /\ tutorsResponse = Pending
    /\ appDays = Pending /\ appOut = Pending /\ response = Pending
    /\ syncDays = Pending /\ syncOut = Pending
    /\ text = << >> /\ parsed = Pending
    /\ oddValues = << >> /\ evenValues = << >>
    /\ slotSync = Pending /\ slotApp = Pending

\* GET /schedules?for=tutors
GetScheduleTutors ==
    /\ tutorsResponse = Pending
    /\ tutorsOut' = TutorsSchedules(grid)
    /\ tutorsResponse' = get_schedule_for_tutors(grid)
    /\ UNCHANGED <<text, parsed, oddValues, evenValues, slotSync, slotApp,
                   grid, appDays, appOut, response, syncDays, syncOut>>

NextTutors == GetScheduleTutors

SpecTutors == InitTutors /\ [][NextTutors]_vars

(***************************************************************************)
(* The tuples the regrouping loop goes through, and what it stored.        *)
(***************************************************************************)
\* the students' schedules were built without an error, so the regrouping ran
RegroupRan == tutorsOut # Pending /\ tutorsOut \notin ParserErrors

FlatEvents == flat_events_for_tutor(GroupSchedules(grid))

SameTutorSlot(a, b) ==
    a.tutor = b.tutor /\ a.day = b.day /\ a.start = b.start /\ a.key = b.key

\* tuples of one tutor, day, start time and key have one subject name
NamesAgree(items) ==
    \A i, j \in 1..Len(items) :
        SameTutorSlot(items[i], items[j]) =>
            items[i].subevent.name = items[j].subevent.name

\* the sub-event tutorsOut holds for the tutor, day, start time and key of
\* a tuple
StoredFor(item) ==
    OdGet(OdGet(OdGet(tutorsOut.schedules, item.tutor, << >>),
                item.day, << >>),
          item.start, << >>)[item.key]

StoredNamesAgree(items) ==
    \A i \in 1..Len(items) : StoredFor(items[i]).name = items[i].subevent.name

(***************************************************************************)
(* C11. The assertion in regroup_schedule_for_tutors never fails: over the *)
(* students' schedules get_group_schedule builds from any grid, two        *)
(* sub-events of the same tutor, day, start time and key have the same     *)
(* subject name, so the regrouping completes and stores one sub-event, of  *)
(* that name, per (tutor, day, start time, key).                           *)
(***************************************************************************)
C11_AssertionNeverFails ==
    RegroupRan =>
        /\ tutorsOut # AssertionError
        /\ With(FlatEvents,
                LAMBDA items : NamesAgree(items) /\ StoredNamesAgree(items))

=============================================================================
